---- MODULE Spec2Model ----
(***************************************************************************)
(* Model of the bookshelf "add a book" pipeline: the command-line flow of  *)
(* add_book.py (main) and the HTTP endpoint of backend/app.py (add_book).  *)
(*                                                                         *)
(* Text is modelled character by character: a Python str is a sequence of  *)
(* one-character strings.  The en dash and the em dash are written "EN"    *)
(* and "EM".  Python's None and "" are both the empty sequence, because    *)
(* the code only ever tests these values for truthiness.                   *)
(***************************************************************************)
EXTENDS Integers, Sequences, FiniteSets, TLC

None == <<>>

(* ------------------------------------------------------------------ *)
(* str helpers                                                        *)
(* ------------------------------------------------------------------ *)
Digits == {"0", "1", "2", "3", "4", "5", "6", "7", "8", "9"}
LowerSeq == <<"a", "b", "c", "d", "e", "f", "g", "h", "i", "j", "k", "l", "m",
              "n", "o", "p", "q", "r", "s", "t", "u", "v", "w", "x", "y", "z">>
UpperSeq == <<"A", "B", "C", "D", "E", "F", "G", "H", "I", "J", "K", "L", "M",
              "N", "O", "P", "Q", "R", "S", "T", "U", "V", "W", "X", "Y", "Z">>
Lower == {LowerSeq[i] : i \in DOMAIN LowerSeq}
Upper == {UpperSeq[i] : i \in DOMAIN UpperSeq}
IsDigit(c) == c \in Digits
IsAlpha(c) == c \in Lower \cup Upper
IsSpace(c) == c = " "

MinOf(S) == CHOOSE a \in S : \A b \in S : a <= b
MaxOf(S) == CHOOSE a \in S : \A b \in S : a >= b
FirstOrZero(S) == IF S = {} THEN 0 ELSE MinOf(S)
OrElse(a, b) == IF a # <<>> THEN a ELSE b

\* s[n:] and s[:n] of Python
Drop(s, n) == SubSeq(s, n + 1, Len(s))
Take(s, n) == SubSeq(s, 1, IF n < Len(s) THEN n ELSE Len(s))

\* "p occurs in s at index i" (1-based), and str.startswith
OccursAt(s, p, i) == i >= 1 /\ i + Len(p) - 1 <= Len(s) /\ SubSeq(s, i, i + Len(p) - 1) = p
StartsWith(s, p) == OccursAt(s, p, 1)

\* index of the first occurrence of p in s at or after i, 0 when there is none
IndexFrom(s, p, i) == FirstOrZero({k \in i..Len(s) : OccursAt(s, p, k)})

\* the `in` operator on str
Contains(s, p) == IndexFrom(s, p, 1) # 0

\* str.replace(old, new): non-overlapping occurrences, left to right
RECURSIVE Replace(_, _, _)
ReplaceAt(s, old, new, k) ==
    IF k = 0 THEN s
    ELSE Take(s, k - 1) \o new \o Replace(Drop(s, k + Len(old) - 1), old, new)
Replace(s, old, new) == ReplaceAt(s, old, new, IndexFrom(s, old, 1))

\* str.strip()
RECURSIVE LStrip(_)
LStrip(s) == IF s # <<>> /\ IsSpace(Head(s)) THEN LStrip(Tail(s)) ELSE s
RECURSIVE RStrip(_)
RStrip(s) == IF s # <<>> /\ IsSpace(s[Len(s)]) THEN RStrip(Take(s, Len(s) - 1)) ELSE s
Strip(s) == RStrip(LStrip(s))

\* str.lower(), also the case folding of re.I
LowerOf(c) ==
    IF c \in Upper THEN LowerSeq[CHOOSE i \in DOMAIN UpperSeq : UpperSeq[i] = c] ELSE c
LowerAll(s) == [i \in 1..Len(s) |-> LowerOf(s[i])]

\* end of the maximal run of whitespace starting at index i (i - 1 when s[i] is no whitespace)
RECURSIVE SpaceRunEnd(_, _)
SpaceRunEnd(s, i) == IF i <= Len(s) /\ IsSpace(s[i]) THEN SpaceRunEnd(s, i + 1) ELSE i - 1

RECURSIVE DigitRunEnd(_, _)
DigitRunEnd(s, i) == IF i <= Len(s) /\ IsDigit(s[i]) THEN DigitRunEnd(s, i + 1) ELSE i - 1

\* re.split on a character class: the pieces between the separator characters
RECURSIVE SplitOn(_, _)
SplitAt(s, seps, i) ==
    IF i = 0 THEN <<s>> ELSE <<SubSeq(s, 1, i - 1)>> \o SplitOn(Drop(s, i), seps)
SplitOn(s, seps) == SplitAt(s, seps, FirstOrZero({i \in 1..Len(s) : s[i] \in seps}))

StripAll(parts) == [i \in 1..Len(parts) |-> Strip(parts[i])]

RECURSIVE JoinWith(_, _)
JoinWith(parts, sep) ==
    IF parts = <<>> THEN <<>>
    ELSE IF Len(parts) = 1 THEN parts[1]
    ELSE parts[1] \o sep \o JoinWith(Tail(parts), sep)

\* html.unescape, for the one entity the modelled pages use
HtmlUnescape(s) == Replace(s, <<"&", "a", "m", "p", ";">>, <<"&">>)

(* ------------------------------------------------------------------ *)
(* is_url                                                             *)
(* ------------------------------------------------------------------ *)
is_url_any_http(s) == StartsWith(s, <<"h", "t", "t", "p">>)
is_url(s) == StartsWith(s, <<"h", "t", "t", "p", ":", "/", "/">>) \/ StartsWith(s, <<"h", "t", "t", "p", "s", ":", "/", "/">>)

(* ------------------------------------------------------------------ *)
(* clean_page_title                                                   *)
(* ------------------------------------------------------------------ *)
\* the character class [\|–—:\-] closing the "X by Y" pattern
BySeparators == {"|", "EN", "EM", ":", "-"}
\* the character class [\|–—] of both re.split calls
SplitSeparators == {"|", "EN", "EM"}
MinFragmentLen == 4
MinFirstFragmentLen == 8

\* (?:\s*[\|–—:\-]|$) tried right after index m
ByTailAt(t, m) ==
    \/ m = Len(t)
    \/ \E w \in m..SpaceRunEnd(t, m + 1) : w + 1 <= Len(t) /\ t[w + 1] \in BySeparators

\* by\s+ tried right after index j: the indices after which group 2 may start
ByAfter(t, j) ==
    IF j + 2 <= Len(t) /\ LowerOf(t[j + 1]) = "b" /\ LowerOf(t[j + 2]) = "y"
    THEN {k \in (j + 3)..SpaceRunEnd(t, j + 3) : k < Len(t)}
    ELSE {}

\* \s+by\s+ tried right after index i, group 1 being t[1..i]
ByMiddleAfter(t, i) == IF IsSpace(t[i + 1]) THEN ByAfter(t, SpaceRunEnd(t, i + 1)) ELSE {}

\* the indices at which group 2 may end when it starts after index k
ByEnds(t, k) == {m \in (k + 1)..Len(t) : ByTailAt(t, m)}
ByStarts(t, i) == {k \in ByMiddleAfter(t, i) : ByEnds(t, k) # {}}
ByFirsts(t) == {i \in 1..(Len(t) - 1) : ByStarts(t, i) # {}}

\* lazy group 1, greedy \s+, lazy group 2
ByGroups(t, i, k) ==
    [matched |-> TRUE, g1 |-> SubSeq(t, 1, i), g2 |-> SubSeq(t, k + 1, MinOf(ByEnds(t, k)))]
ByMatchAt(t, i) == ByGroups(t, i, MaxOf(ByStarts(t, i)))
ByMatchIn(t, firsts) == IF firsts = {} THEN [matched |-> FALSE] ELSE ByMatchAt(t, MinOf(firsts))
\* re.match(r"^(.+?)\s+by\s+(.+?)(?:\s*[\|–—:\-]|$)", t, re.I)
ByMatch(t) == ByMatchIn(t, ByFirsts(t))

LongEnough(p) == Len(p) > MinFragmentLen

TitleAuthor(by_match) ==
    Strip(by_match.g1) \o <<" ">> \o Strip(SplitOn(by_match.g2, SplitSeparators)[1])

FirstChunk(t, parts) ==
    IF parts # <<>>
    THEN IF Len(parts[1]) > MinFirstFragmentLen THEN parts[1]
         ELSE JoinWith(Take(parts, 2), <<" ">>)
    ELSE t

CleanWith(t, by_match) ==
    IF by_match.matched THEN TitleAuthor(by_match)
    ELSE FirstChunk(t, SelectSeq(StripAll(SplitOn(t, SplitSeparators)), LongEnough))

clean_page_title(raw_title) == CleanWith(raw_title, ByMatch(raw_title))

(* ------------------------------------------------------------------ *)
(* URL patterns of the marketplace and the review aggregator           *)
(* ------------------------------------------------------------------ *)
MinSlugTail == 4
AmazonHost == <<"a", "m", "a", "z", "o", "n", ".">>
GoodreadsHost == <<"g", "o", "o", "d", "r", "e", "a", "d", "s", ".", "c", "o", "m">>
GoodreadsPrefix == <<"g", "o", "o", "d", "r", "e", "a", "d", "s", ".", "c", "o", "m", "/", "b", "o", "o", "k", "/", "s", "h", "o", "w", "/">>

\* ([A-Za-z][^/]{4,})/dp/ tried on the path segment between the slashes at s1 and s2
AmazonSegment(raw, s1, s2) ==
    IF /\ s2 # 0
       /\ s2 - s1 - 1 >= 1 + MinSlugTail
       /\ IsAlpha(raw[s1 + 1])
       /\ OccursAt(raw, <<"/", "d", "p", "/">>, s2)
    THEN <<SubSeq(raw, s1 + 1, s2 - 1)>>
    ELSE <<>>

\* [^/]+/ tried after "amazon." with the host part starting at index h, s1 the next slash
AmazonAfterHost(raw, h, s1) ==
    IF s1 > h THEN AmazonSegment(raw, s1, IndexFrom(raw, <<"/">>, s1 + 1)) ELSE <<>>

\* amazon\.[^/]+/([A-Za-z][^/]{4,})/dp/ tried with "amazon." at index p
AmazonMatchAt(raw, p) ==
    IF OccursAt(raw, AmazonHost, p)
    THEN AmazonAfterHost(raw, p + Len(AmazonHost), IndexFrom(raw, <<"/">>, p + Len(AmazonHost)))
    ELSE <<>>

\* re.search: the leftmost index at which the pattern matches; <<group 1>> or <<>>
AmazonMatchFirst(raw, p) == IF p = 0 THEN <<>> ELSE AmazonMatchAt(raw, p)
AmazonSlugMatch(raw) ==
    AmazonMatchFirst(raw, FirstOrZero({p \in 1..Len(raw) : AmazonMatchAt(raw, p) # <<>>}))

\* (.+?)(?:\?|$) tried from index g: the lazy group ends before the first "?" after g, or at the end
GoodreadsGroup(raw, g) ==
    IF g <= Len(raw)
    THEN <<SubSeq(raw, g, MinOf({m \in g..Len(raw) : m = Len(raw) \/ raw[m + 1] = "?"}))>>
    ELSE <<>>

\* \d+[.-] tried from index d, e the end of the run of digits
GoodreadsAfterDigits(raw, d, e) ==
    IF e >= d /\ e + 1 <= Len(raw) /\ raw[e + 1] \in {".", "-"}
    THEN GoodreadsGroup(raw, e + 2)
    ELSE <<>>

\* goodreads\.com/book/show/\d+[.-](.+?)(?:\?|$) tried with the prefix at index p
GoodreadsMatchAt(raw, p) ==
    IF OccursAt(raw, GoodreadsPrefix, p)
    THEN GoodreadsAfterDigits(raw, p + Len(GoodreadsPrefix),
                              DigitRunEnd(raw, p + Len(GoodreadsPrefix)))
    ELSE <<>>

GoodreadsMatchFirst(raw, p) == IF p = 0 THEN <<>> ELSE GoodreadsMatchAt(raw, p)
GoodreadsSlugMatch(raw) ==
    GoodreadsMatchFirst(raw, FirstOrZero({p \in 1..Len(raw) : GoodreadsMatchAt(raw, p) # <<>>}))

AmazonSlug(g) == Replace(g, <<"-">>, <<" ">>)
GoodreadsSlug(g) == Replace(Replace(g, <<"-">>, <<" ">>), <<"_">>, <<" ">>)

(* ------------------------------------------------------------------ *)
(* fetch_page_info                                                    *)
(*                                                                    *)
(* A transport response is [kind |-> k], k one of FailureKinds, or    *)
(* [kind |-> "ok", page |-> p].  A page p records, for each pattern   *)
(* fetch_page_info searches the body for, <<capture>> of its first    *)
(* match or <<>> when the body has no match.                          *)
(* ------------------------------------------------------------------ *)
FailureKinds == {"http_error", "conn_fail", "timeout", "bad_body"}

\* re.sub(r"<[^>]+>", "", s)
RECURSIVE RemoveTags(_)
RemoveTagAt(s, i) ==
    IF i = 0 THEN s
    ELSE Take(s, i - 1) \o RemoveTags(Drop(s, MinOf({j \in (i + 1)..Len(s) : s[j] = ">"})))
RemoveTags(s) ==
    RemoveTagAt(s, FirstOrZero({i \in 1..Len(s) :
        /\ s[i] = "<"
        /\ i + 1 <= Len(s) /\ s[i + 1] # ">"
        /\ \E j \in (i + 2)..Len(s) : s[j] = ">"}))

EmptyPageInfo == [title |-> None, cover |-> None]

PageCover(p) ==
    IF p.og_image_prop # <<>> THEN HtmlUnescape(Strip(p.og_image_prop[1]))
    ELSE IF p.og_image_rev # <<>> THEN HtmlUnescape(Strip(p.og_image_rev[1]))
    ELSE IF p.og_image_name # <<>> THEN HtmlUnescape(Strip(p.og_image_name[1]))
    ELSE None

OgTitle(p) ==
    IF p.og_title_prop # <<>> THEN Strip(HtmlUnescape(p.og_title_prop[1]))
    ELSE IF p.og_title_rev # <<>> THEN Strip(HtmlUnescape(p.og_title_rev[1]))
    ELSE None
TitleTag(p) == IF p.title_tag # <<>> THEN Strip(HtmlUnescape(p.title_tag[1])) ELSE None
FirstH1(p) == IF p.h1 # <<>> THEN Strip(HtmlUnescape(RemoveTags(p.h1[1]))) ELSE None
PageTitle(p) == OrElse(OgTitle(p), OrElse(TitleTag(p), FirstH1(p)))

fetch_page_info(resp) ==
    IF resp.kind # "ok" THEN EmptyPageInfo
    ELSE [title |-> PageTitle(resp.page), cover |-> PageCover(resp.page)]

(* ------------------------------------------------------------------ *)
(* get_search_query_and_cover (CLI) and the query block of add_book   *)
(* (HTTP).  resp1 and resp2 are the transport's responses to the      *)
(* first and second page fetch, fallback the text typed at the        *)
(* "Enter the book title/author manually" prompt.  The result tells   *)
(* the query and the cover, and for the properties: fetches, the      *)
(* calls of fetch_page_info made; info, what the last of them         *)
(* returned; title, the page title the query was cleaned from.        *)
(* ------------------------------------------------------------------ *)
NoFetch(query) ==
    [query |-> query, cover |-> None, fetches |-> 0, info |-> EmptyPageInfo, title |-> None]
FromSlug(slug, info) ==
    [query |-> slug, cover |-> info.cover, fetches |-> 1, info |-> info, title |-> None]
FromTitle(info, n) ==
    [query |-> clean_page_title(info.title), cover |-> info.cover, fetches |-> n,
     info |-> info, title |-> info.title]
FromTitleOr(info, other) ==
    IF info.title # None THEN FromTitle(info, 1)
    ELSE [query |-> other, cover |-> info.cover, fetches |-> 1, info |-> info, title |-> None]

\* lines 155-172
GenericPage(info, n, fallback) ==
    IF info.title # None THEN FromTitle(info, n)
    ELSE [query |-> Strip(fallback), cover |-> None, fetches |-> n, info |-> info, title |-> None]

\* lines 126-140
AmazonPage(raw, m, info) ==
    IF m # <<>> THEN FromSlug(AmazonSlug(m[1]), info) ELSE FromTitleOr(info, raw)

\* lines 143-153, falling through to lines 155-172
GoodreadsPage(m, info1, info2, fallback) ==
    IF m # <<>> THEN FromSlug(GoodreadsSlug(m[1]), info1)
    ELSE IF info1.title # None THEN FromTitle(info1, 1)
    ELSE GenericPage(info2, 2, fallback)

get_search_query_and_cover(raw, resp1, resp2, fallback) ==
    IF ~is_url(raw) THEN NoFetch(raw)
    ELSE IF Contains(raw, AmazonHost)
    THEN AmazonPage(raw, AmazonSlugMatch(raw), fetch_page_info(resp1))
    ELSE IF Contains(raw, GoodreadsHost)
    THEN GoodreadsPage(GoodreadsSlugMatch(raw), fetch_page_info(resp1),
                       fetch_page_info(resp2), fallback)
    ELSE GenericPage(fetch_page_info(resp1), 1, fallback)

\* backend/app.py lines 53-61
AmazonPageHttp(raw, m, info) ==
    IF m # <<>> THEN NoFetch(AmazonSlug(m[1])) ELSE FromTitleOr(info, raw)

\* backend/app.py lines 62-69
GoodreadsPageHttp(raw, m, info) ==
    IF m # <<>> THEN FromSlug(GoodreadsSlug(m[1]), info) ELSE FromTitleOr(info, raw)

\* backend/app.py lines 47-79
derive_query(raw, resp) ==
    IF ~is_url(raw) THEN NoFetch(raw)
    ELSE IF Contains(raw, AmazonHost)
    THEN AmazonPageHttp(raw, AmazonSlugMatch(raw), fetch_page_info(resp))
    ELSE IF Contains(raw, GoodreadsHost)
    THEN GoodreadsPageHttp(raw, GoodreadsSlugMatch(raw), fetch_page_info(resp))
    ELSE FromTitleOr(fetch_page_info(resp), raw)

(* ------------------------------------------------------------------ *)
(* Google Books: _gb_fetch, search_google_books, _parse_volume         *)
(*                                                                    *)
(* A catalog response is [kind |-> k], k one of FailureKinds, or      *)
(* [kind |-> "ok", items |-> <<item, ...>>].  In an item an absent    *)
(* key with a non-empty default is <<>> and a present one <<value>>.  *)
(* ------------------------------------------------------------------ *)
IsbnLen == 13
MaxResults == 5
YearLen == 4

_gb_fetch(resp) == IF resp.kind = "ok" THEN resp.items ELSE <<>>

\* re.sub(r"&zoom=\d", "", cover): one pass, left to right
ZoomParam == <<"&", "z", "o", "o", "m", "=">>
RECURSIVE ZoomStrip(_)
ZoomStripAt(s, k) ==
    IF k = 0 THEN s ELSE Take(s, k - 1) \o ZoomStrip(Drop(s, k + Len(ZoomParam)))
ZoomStrip(s) ==
    ZoomStripAt(s, FirstOrZero({k \in 1..Len(s) :
        /\ OccursAt(s, ZoomParam, k)
        /\ k + Len(ZoomParam) <= Len(s)
        /\ IsDigit(s[k + Len(ZoomParam)])}))

\* {i["type"]: i["identifier"] for i in ...}.get(type, ""): the last entry of the type wins
RECURSIVE IdOfType(_, _)
IdOfType(ids, type) ==
    IF ids = <<>> THEN <<>>
    ELSE IF ids[Len(ids)].type = type THEN ids[Len(ids)].identifier
    ELSE IdOfType(Take(ids, Len(ids) - 1), type)

\* line 209
NormalizeCover(cover) == Replace(ZoomStrip(cover), <<"h", "t", "t", "p", ":", "/", "/">>, <<"h", "t", "t", "p", "s", ":", "/", "/">>)

\* lines 207-208
BestImage(img) == OrElse(img.extraLarge, OrElse(img.large, OrElse(img.medium, img.thumbnail)))

ParseInfo(id, info) ==
    [google_id |-> id,
     title |-> IF info.title = <<>> THEN <<"U", "n", "k", "n", "o", "w", "n", " ", "T", "i", "t", "l", "e">> ELSE info.title[1],
     author |-> JoinWith(IF info.authors = <<>> THEN <<<<"U", "n", "k", "n", "o", "w", "n", " ", "A", "u", "t", "h", "o", "r">>>> ELSE info.authors[1],
                         <<",", " ">>),
     publisher |-> info.publisher,
     published_year |-> Take(info.publishedDate, YearLen),
     genre |-> IF info.categories # <<>> THEN info.categories[1] ELSE <<>>,
     description |-> info.description,
     isbn |-> OrElse(IdOfType(info.industryIdentifiers, "ISBN_13"),
                     IdOfType(info.industryIdentifiers, "ISBN_10")),
     cover_url |-> NormalizeCover(BestImage(info.imageLinks))]

_parse_volume(item) == ParseInfo(item.id, item.volumeInfo)

\* re.sub(r"[-\s]", "", query) and re.fullmatch(r"\d{13}", clean)
NotHyphenOrSpace(c) == c # "-" /\ ~IsSpace(c)
AllDigits(clean, n) == Len(clean) = n /\ \A i \in 1..Len(clean) : IsDigit(clean[i])
IsIsbnQuery(query) == AllDigits(SelectSeq(query, NotHyphenOrSpace), IsbnLen)

\* A request as the properties see it: which one, whether the transport failed, the items read
IsbnRequest(resp) ==
    [kind |-> "isbn", maxResults |-> 0, failed |-> resp.kind # "ok", items |-> _gb_fetch(resp)]
TextRequest(resp) ==
    [kind |-> "text", maxResults |-> MaxResults, failed |-> resp.kind # "ok", items |-> _gb_fetch(resp)]

FirstOf(items) == IF items # <<>> THEN _parse_volume(items[1]) ELSE None

\* lines 196-200
FreeText(resp_text, before) ==
    [book |-> FirstOf(_gb_fetch(resp_text)), log |-> before \o <<TextRequest(resp_text)>>]

\* lines 191-194
IsbnFirst(isbn_items, resp_isbn, resp_text) ==
    IF isbn_items # <<>>
    THEN [book |-> _parse_volume(isbn_items[1]), log |-> <<IsbnRequest(resp_isbn)>>]
    ELSE FreeText(resp_text, <<IsbnRequest(resp_isbn)>>)

\* resp_isbn, resp_text: the transport's responses to the ISBN and to the free-text
\* request; log lists the requests issued, in order.
search_google_books_text_only(query, resp_isbn, resp_text) == FreeText(resp_text, <<>>)

search_google_books(query, resp_isbn, resp_text) ==
    IF IsIsbnQuery(query) THEN IsbnFirst(_gb_fetch(resp_isbn), resp_isbn, resp_text)
    ELSE FreeText(resp_text, <<>>)

\* The record of the document-store variant of the script, which backend/app.py reads
\* through the keys googleId, coverUrl and coverSource.
fb_record(book) ==
    IF book = None THEN None
    ELSE [googleId |-> book.google_id, title |-> book.title, author |-> book.author,
          publisher |-> book.publisher, publishedYear |-> book.published_year,
          genre |-> book.genre, description |-> book.description, isbn |-> book.isbn,
          coverUrl |-> book.cover_url]

(* ------------------------------------------------------------------ *)
(* Persistence                                                        *)
(* ------------------------------------------------------------------ *)
SameGoogleId(r, google_id) == r["Google Books ID"] = google_id
Matching(store, google_id) == {i \in DOMAIN store : SameGoogleId(store[i], google_id)}

\* add_book.py: the Airtable query, answered by the records the formula keeps, or a failure
check_duplicate_unfiltered(google_id, store, resp) == resp.kind = "ok" /\ store # <<>>
check_duplicate(google_id, store, resp) ==
    IF resp.kind = "ok" THEN Matching(store, google_id) # {} ELSE FALSE

AirtableFields(book) ==
    [f \in {"Title", "Author", "Cover URL", "Genre", "Publisher", "ISBN",
            "Google Books ID", "List", "Tags", "Notes"} |->
        CASE f = "Title" -> book.title
          [] f = "Author" -> book.author
          [] f = "Cover URL" -> book.cover_url
          [] f = "Genre" -> book.genre
          [] f = "Publisher" -> book.publisher
          [] f = "ISBN" -> book.isbn
          [] f = "Google Books ID" -> book.google_id
          [] f = "List" -> book.list
          [] f = "Tags" -> book.tags
          [] f = "Notes" -> book.notes]

\* save_to_airtable: what the call does for each response of the transport to the POST.
\*   returned: the bool returned; raised: an exception left the function (only
\*   urllib.error.HTTPError is caught).
save_to_airtable(book, resp) ==
    CASE resp.kind = "ok" -> [returned |-> TRUE, raised |-> FALSE]
      [] resp.kind = "http_error" -> [returned |-> FALSE, raised |-> FALSE]
      [] OTHER -> [returned |-> FALSE, raised |-> TRUE]

\* The document-store adapter of the script's other variant.
FirestoreDoc(book) ==
    [f \in {"Title", "Cover URL", "Google Books ID", "List"} |->
        CASE f = "Title" -> book.title
          [] f = "Cover URL" -> book.coverUrl
          [] f = "Google Books ID" -> book.googleId
          [] f = "List" -> book.list]

check_duplicate_fb(google_id, store, resp) ==
    IF resp.kind = "ok" THEN Matching(store, google_id) # {} ELSE FALSE

save_to_firebase(book, resp) == resp.kind = "ok"

(* ------------------------------------------------------------------ *)
(* Inputs of the model                                                *)
(* ------------------------------------------------------------------ *)
PondTitle == <<"P", "o", "n", "d", " ", "b", "y", " ", "C", "l", "a", "i", "r", "e", "-", "L", "o", "u", "i", "s", "e", " ", "B", "e", "n", "n", "e", "t", "t", " ", "|", " ", "F", "i", "t", "z", "c", "a", "r", "r", "a", "l", "d", "o", " ", "E", "d", "i", "t", "i", "o", "n", "s">>

NoPage == [og_image_prop |-> <<>>, og_image_rev |-> <<>>, og_image_name |-> <<>>,
           og_title_prop |-> <<>>, og_title_rev |-> <<>>, title_tag |-> <<>>, h1 |-> <<>>]
PagePond == [NoPage EXCEPT !.og_image_prop = <<<<"h", "t", "t", "p", "s", ":", "/", "/", "c", "/", "i", ".", "j", "p", "g">>>>, !.og_title_prop = <<PondTitle>>]
PageHttp == [NoPage EXCEPT !.og_image_name = <<<<"h", "t", "t", "p", ":", "/", "/", "c", "/", "j", "?", "a", "=", "1", "&", "a", "m", "p", ";", "b", "=", "2">>>>,
                           !.title_tag = <<<<" ", "P", "o", "n", "d", " ", "L", "i", "f", "e", " ", "EN", " ", "F", "i", "t", "z", "c", "a", "r", "r", "a", "l", "d", "o", " ">>>>]
PageBare == [NoPage EXCEPT !.h1 = <<<<"<", "b", ">", "P", "o", "n", "d", "<", "/", "b", ">", " ", "b", "y", " ", "C", " ", "B", "e", "n", "n", "e", "t", "t", ":", " ", "a", " ", "n", "o", "v", "e", "l">>>>]
Pages == {NoPage, PagePond, PageHttp, PageBare}
FetchResponses == [kind : FailureKinds] \cup [kind : {"ok"}, page : Pages]

NoVolumeInfo == [title |-> <<>>, authors |-> <<>>, publisher |-> <<>>, publishedDate |-> <<>>,
                 categories |-> <<>>, description |-> <<>>, industryIdentifiers |-> <<>>,
                 imageLinks |-> [extraLarge |-> <<>>, large |-> <<>>, medium |-> <<>>, thumbnail |-> <<>>]]
VolThumb == [id |-> <<"g", "1">>,
             volumeInfo |-> [NoVolumeInfo EXCEPT !.imageLinks.thumbnail = <<"h", "t", "t", "p", ":", "/", "/", "x", "/", "i", "m", "g", "?", "z", "o", "o", "m", "=", "1">>]]
VolLarge == [id |-> <<"g", "2">>,
             volumeInfo |-> [NoVolumeInfo EXCEPT
                 !.title = <<<<"P", "o", "n", "d">>>>,
                 !.authors = <<<<<<"C", " ", "B", "e", "n", "n", "e", "t", "t">>, <<"A", " ", "N", " ", "O", "t", "h", "e", "r">>>>>>,
                 !.publishedDate = <<"2", "0", "2", "1", "-", "0", "5", "-", "0", "4">>,
                 !.categories = <<<<"F", "i", "c", "t", "i", "o", "n">>, <<"E", "s", "s", "a", "y", "s">>>>,
                 !.industryIdentifiers = <<[type |-> "ISBN_10", identifier |-> <<"0", "3", "7", "4", "5", "3", "3", "5", "5", "5">>],
                                           [type |-> "ISBN_13", identifier |-> <<"9", "7", "8", "0", "3", "7", "4", "5", "3", "3", "5", "5", "7">>]>>,
                 !.imageLinks.large = <<"h", "t", "t", "p", ":", "/", "/", "b", "/", "c", "?", "i", "d", "=", "1", "&", "z", "o", "o", "m", "=", "1", "&", "e", "=", "c">>,
                 !.imageLinks.thumbnail = <<"h", "t", "t", "p", ":", "/", "/", "b", "/", "t">>]]
VolBare == [id |-> <<>>, volumeInfo |-> NoVolumeInfo]
ItemLists == {<<>>, <<VolThumb>>, <<VolLarge, VolThumb>>, <<VolBare>>}
GbResponses == [kind : FailureKinds] \cup [kind : {"ok"}, items : ItemLists]

StoreResponses == [kind : FailureKinds \cup {"ok"}]

\* The responses of the datastore to an insert: landed tells whether the record was stored.
WriteResponses ==
    {[kind |-> "ok", landed |-> TRUE], [kind |-> "http_error", landed |-> FALSE],
     [kind |-> "conn_fail", landed |-> FALSE], [kind |-> "timeout", landed |-> FALSE],
     [kind |-> "timeout", landed |-> TRUE], [kind |-> "bad_body", landed |-> TRUE]}

RawInputs == {<<>>, <<"P", "o", "n", "d">>, <<"9", "7", "8", "0", "3", "7", "4", "5", "3", "3", "5", "5", "7">>, <<"9", "7", "8", "0", "3", "7", "4", "5", "3", "3", "5", "5">>, <<"h", "t", "t", "p", ":", "x">>,
              <<"h", "t", "t", "p", "s", ":", "/", "/", "a", "m", "a", "z", "o", "n", ".", "c", "o", "m", "/", "P", "o", "n", "d", "s", "/", "d", "p", "/", "1">>, <<"h", "t", "t", "p", "s", ":", "/", "/", "a", "m", "a", "z", "o", "n", ".", "c", "o", "m", "/", "d", "p", "/", "1">>,
              <<"h", "t", "t", "p", "s", ":", "/", "/", "g", "o", "o", "d", "r", "e", "a", "d", "s", ".", "c", "o", "m", "/", "b", "o", "o", "k", "/", "s", "h", "o", "w", "/", "1", ".", "P", "o", "n", "d", "_", "L", "i", "f", "e">>, <<"h", "t", "t", "p", "s", ":", "/", "/", "g", "o", "o", "d", "r", "e", "a", "d", "s", ".", "c", "o", "m", "/", "b", "o", "o", "k", "/", "s", "h", "o", "w", "/", "1">>,
              <<"h", "t", "t", "p", ":", "/", "/", "x", ".", "i", "o", "/", "p", "o", "n", "d">>}
TypedQueries == {<<>>, <<" ", "P", "o", "n", "d", " ">>, <<"9", "7", "8", "-", "0", "-", "3", "7", "4", "-", "5", "3", "3", "5", "5", "-", "7">>}
YesNoAnswers == {<<>>, <<" ", "Y">>, <<"n">>}
ListChoices == {<<>>, <<"2">>}
TagInputs == {<<>>, <<"a", ",", " ", ",", "b">>}
NoteInputs == {<<" ", "l", "e", "n", "t">>}
Callers == {"cli", "http"}

MaxStored == 1
MaxReprompts == 1

(* ------------------------------------------------------------------ *)
(* State                                                              *)
(* ------------------------------------------------------------------ *)
VARIABLES
    caller,       \* which program runs: the script ("cli") or the endpoint ("http")
    store,        \* the records of the datastore, oldest first
    pc,           \* position of the run
    raw,          \* the input of the run
    query,        \* the search query derived from raw
    page_cover,   \* the cover scraped from the page, or None
    fetches,      \* calls of fetch_page_info made
    page_info,    \* what the last call of fetch_page_info returned
    title_used,   \* the page title the query was cleaned from, or None
    search,       \* the last call of search_google_books: its query, requests and result
    lookups,      \* for each call of search_google_books, whether it found a book
    book,         \* the candidate record, or None
    dup_queries,  \* duplicate-check queries sent to the datastore
    dup_failed,   \* whether the duplicate-check query failed
    dup_flag,     \* the value of the duplicate check
    add_again,    \* <<the answer to "Add again anyway?">>, or None when not asked
    cancelled,    \* prompt_user returned None
    reprompts,    \* lookups re-run inside prompt_user
    insert,       \* "none", or how the insert ended: "ok", "failed", "raised"
    result        \* how the run ended: exit code, or HTTP status and body

vars == <<caller, store, pc, raw, query, page_cover, fetches, page_info, title_used, search,
          lookups, book, dup_queries, dup_failed, dup_flag, add_again, cancelled, reprompts,
          insert, result>>

Running == [kind |-> "running"]
Exit(code) == [kind |-> "exit", code |-> code, traceback |-> FALSE]
Traceback == [kind |-> "exit", code |-> 1, traceback |-> TRUE]
Http(status, body) == [kind |-> "http", status |-> status, body |-> body]

NoSearch == [query |-> None, log |-> <<>>, book |-> None]

\* lines 350-355; "page image" stands for the source's label, which ends in a check mark
PreferPageCover(b, cover) ==
    IF cover # None
    THEN [k \in DOMAIN b \cup {"cover_source"} |->
             IF k = "cover_url" THEN cover ELSE IF k = "cover_source" THEN "page image" ELSE b[k]]
    ELSE [k \in DOMAIN b \cup {"cover_source"} |->
             IF k = "cover_source" THEN "Google Books" ELSE b[k]]

\* line 247
CatalogCover(b) ==
    [k \in DOMAIN b \cup {"cover_source"} |-> IF k = "cover_source" THEN "Google Books" ELSE b[k]]

\* [t.strip() for t in tags_raw.split(",") if t.strip()] if tags_raw else []
NonEmpty(p) == p # <<>>
ParseTags(tags_raw) ==
    IF tags_raw # <<>> THEN SelectSeq(StripAll(SplitOn(tags_raw, {","})), NonEmpty) ELSE <<>>

\* list_map.get(choice, "To Read")
ListOf(choice) ==
    CASE choice = <<"1">> -> "To Read"
      [] choice = <<"2">> -> "To Buy"
      [] choice = <<"3">> -> "Read"
      [] OTHER -> "To Read"

\* lines 255-262
WithEdits(b, choice, tags_raw, notes) ==
    [k \in DOMAIN b \cup {"list", "tags", "notes"} |->
        IF k = "list" THEN ListOf(Strip(choice))
        ELSE IF k = "tags" THEN ParseTags(Strip(tags_raw))
        ELSE IF k = "notes" THEN Strip(notes)
        ELSE b[k]]

\* backend/app.py lines 88-93
PreferPageCoverHttp(b, cover) ==
    IF cover # None
    THEN [k \in DOMAIN b \cup {"coverSource"} |->
             IF k = "coverUrl" THEN cover ELSE IF k = "coverSource" THEN "page" ELSE b[k]]
    ELSE [k \in DOMAIN b \cup {"coverSource"} |->
             IF k = "coverSource" THEN "Google Books" ELSE b[k]]

\* backend/app.py lines 95-98
WithDefaults(b) ==
    [k \in DOMAIN b \cup {"list", "tags", "notes"} |->
        IF k = "list" THEN "To Read"
        ELSE IF k = "tags" THEN (IF "tags" \in DOMAIN b THEN b[k] ELSE <<>>)
        ELSE IF k = "notes" THEN (IF "notes" \in DOMAIN b THEN b[k] ELSE <<>>)
        ELSE b[k]]

\* The records earlier runs left in the datastore: each the record of a run that accepted
\* the catalog's first hit as it was.
EarlierItems == <<VolThumb, VolLarge>>
EarlierCli(item) ==
    AirtableFields(WithEdits(PreferPageCover(_parse_volume(item), None), <<>>, <<>>, <<>>))
EarlierHttp(item) ==
    FirestoreDoc(WithDefaults(PreferPageCoverHttp(fb_record(_parse_volume(item)), None)))
Earlier(c, n) ==
    [i \in 1..n |-> IF c = "cli" THEN EarlierCli(EarlierItems[i]) ELSE EarlierHttp(EarlierItems[i])]
StoredCounts == {n \in 0..MaxStored : n <= Len(EarlierItems)}

Init ==
    /\ caller \in Callers
    /\ \E n \in StoredCounts : store = Earlier(caller, n)
    /\ raw \in RawInputs
    /\ pc = "start"
    /\ query = None /\ page_cover = None /\ fetches = 0 /\ page_info = EmptyPageInfo
    /\ title_used = None /\ search = NoSearch /\ lookups = <<>> /\ book = None
    /\ dup_queries = 0 /\ dup_failed = FALSE /\ dup_flag = FALSE /\ add_again = None
    /\ cancelled = FALSE /\ reprompts = 0 /\ insert = "none" /\ result = Running

\* .strip().lower() of an answer
Answer(s) == LowerAll(Strip(s))

Finish(r) == pc' = "done" /\ result' = r
Continue(at) == pc' = at /\ result' = result

SetQuery(qc) ==
    /\ query' = qc.query
    /\ page_cover' = qc.cover
    /\ fetches' = qc.fetches
    /\ page_info' = qc.info
    /\ title_used' = qc.title

RecordSearch(q, s) ==
    /\ search' = [query |-> q, log |-> s.log, book |-> s.book]
    /\ lookups' = Append(lookups, s.book # None)

(* ------------------------------------------------------------------ *)
(* add_book.py: main                                                  *)
(* ------------------------------------------------------------------ *)
CliQueried(qc) ==
    /\ SetQuery(qc)
    /\ IF qc.query = None THEN Finish(Exit(1)) ELSE Continue("search")

\* lines 330-337
CliQuery ==
    /\ caller = "cli" /\ pc = "start"
    /\ \E resp1 \in FetchResponses, resp2 \in FetchResponses, fallback \in TypedQueries :
         CliQueried(get_search_query_and_cover(raw, resp1, resp2, fallback))
    /\ UNCHANGED <<caller, store, raw, search, lookups, book, dup_queries, dup_failed,
                   dup_flag, add_again, cancelled, reprompts, insert>>

CliSearched(s) ==
    /\ RecordSearch(query, s)
    /\ book' = s.book
    /\ pc' = IF s.book = None THEN "retry" ELSE "reconcile"

\* line 339
CliSearch ==
    /\ caller = "cli" /\ pc = "search"
    /\ \E ri \in GbResponses, rt \in GbResponses : CliSearched(search_google_books(query, ri, rt))
    /\ UNCHANGED <<caller, store, raw, query, page_cover, fetches, page_info, title_used,
                   dup_queries, dup_failed, dup_flag, add_again, cancelled, reprompts,
                   insert, result>>

CliRetriedLoop(retry, s) ==
    /\ RecordSearch(retry, s)
    /\ book' = s.book
    /\ IF s.book = None THEN Continue("retry") ELSE Continue("reconcile")

CliRetried(retry, s) ==
    /\ RecordSearch(retry, s)
    /\ book' = s.book
    /\ IF s.book = None THEN Finish(Exit(1)) ELSE Continue("reconcile")

CliRetryOr(retry, ri, rt) ==
    IF retry = None
    THEN Finish(Exit(1)) /\ UNCHANGED <<search, book, lookups>>
    ELSE CliRetried(retry, search_google_books(retry, ri, rt))

\* lines 341-348
CliRetry ==
    /\ caller = "cli" /\ pc = "retry"
    /\ \E typed \in TypedQueries, ri \in GbResponses, rt \in GbResponses :
         CliRetryOr(Strip(typed), ri, rt)
    /\ UNCHANGED <<caller, store, raw, query, page_cover, fetches, page_info, title_used,
                   dup_queries, dup_failed, dup_flag, add_again, cancelled, reprompts, insert>>

CliReconciledStrict(queried, dup, failed, answer) ==
    /\ book' = PreferPageCover(book, page_cover)
    /\ dup_queries' = IF queried THEN dup_queries + 1 ELSE dup_queries
    /\ dup_failed' = (queried /\ failed)
    /\ dup_flag' = dup
    /\ add_again' = IF dup THEN <<answer>> ELSE None
    /\ IF dup THEN Finish(Exit(0)) ELSE Continue("prompt")

CliReconciled(queried, dup, failed, answer) ==
    /\ book' = PreferPageCover(book, page_cover)
    /\ dup_queries' = IF queried THEN dup_queries + 1 ELSE dup_queries
    /\ dup_failed' = (queried /\ failed)
    /\ dup_flag' = dup
    /\ add_again' = IF dup THEN <<answer>> ELSE None
    /\ IF dup /\ answer # <<"y">> THEN Finish(Exit(0)) ELSE Continue("prompt")

\* lines 350-360
CliReconcile ==
    /\ caller = "cli" /\ pc = "reconcile"
    /\ \E resp \in StoreResponses, typed \in YesNoAnswers :
         CliReconciled(book.google_id # None,
                       book.google_id # None /\ check_duplicate(book.google_id, store, resp),
                       resp.kind # "ok", Answer(typed))
    /\ UNCHANGED <<caller, store, raw, query, page_cover, fetches, page_info, title_used,
                   search, lookups, cancelled, reprompts, insert>>

CliPromptSearched(new_query, s) ==
    /\ RecordSearch(new_query, s)
    /\ reprompts' = reprompts + 1
    /\ IF s.book = None
       THEN Finish(Exit(0)) /\ cancelled' = TRUE /\ book' = book
       ELSE Continue("prompt") /\ cancelled' = cancelled /\ book' = CatalogCover(s.book)

CliPromptOr(new_query, ri, rt) ==
    IF new_query = None
    THEN Finish(Exit(0)) /\ cancelled' = TRUE /\ UNCHANGED <<search, book, lookups, reprompts>>
    ELSE CliPromptSearched(new_query, search_google_books(new_query, ri, rt))

\* prompt_user, lines 239-248: "Is this the right book?" answered n; then lines 363-365
CliPromptAgain ==
    /\ caller = "cli" /\ pc = "prompt"
    /\ reprompts < MaxReprompts
    /\ \E typed \in TypedQueries, ri \in GbResponses, rt \in GbResponses :
         CliPromptOr(Strip(typed), ri, rt)
    /\ UNCHANGED <<caller, store, raw, query, page_cover, fetches, page_info, title_used,
                   dup_queries, dup_failed, dup_flag, add_again, insert>>

\* prompt_user, lines 250-262: the book is accepted and edited
CliPromptAccept ==
    /\ caller = "cli" /\ pc = "prompt"
    /\ \E choice \in ListChoices, tags_raw \in TagInputs, notes \in NoteInputs :
         book' = WithEdits(book, choice, tags_raw, notes)
    /\ pc' = "save"
    /\ UNCHANGED <<caller, store, raw, query, page_cover, fetches, page_info, title_used,
                   search, lookups, dup_queries, dup_failed, dup_flag, add_again, cancelled,
                   reprompts, insert, result>>

CliSaved(r, landed) ==
    /\ store' = IF landed THEN Append(store, AirtableFields(book)) ELSE store
    /\ insert' = IF r.raised THEN "raised" ELSE IF r.returned THEN "ok" ELSE "failed"
    /\ Finish(IF r.raised THEN Traceback ELSE Exit(0))

\* line 367
CliSave ==
    /\ caller = "cli" /\ pc = "save"
    /\ \E resp \in WriteResponses : CliSaved(save_to_airtable(book, resp), resp.landed)
    /\ UNCHANGED <<caller, raw, query, page_cover, fetches, page_info, title_used, search,
                   lookups, book, dup_queries, dup_failed, dup_flag, add_again, cancelled,
                   reprompts>>

(* ------------------------------------------------------------------ *)
(* backend/app.py: add_book                                           *)
(* ------------------------------------------------------------------ *)
HttpQueried(qc) ==
    IF raw = <<>>
    THEN /\ Finish(Http(400, [error |-> "Missing input parameter"]))
         /\ UNCHANGED <<query, page_cover, fetches, page_info, title_used>>
    ELSE SetQuery(qc) /\ Continue("search")

\* lines 42-81
HttpQuery ==
    /\ caller = "http" /\ pc = "start"
    /\ \E resp \in FetchResponses : HttpQueried(derive_query(raw, resp))
    /\ UNCHANGED <<caller, store, raw, search, lookups, book, dup_queries, dup_failed,
                   dup_flag, add_again, cancelled, reprompts, insert>>

HttpSearched(s) ==
    /\ RecordSearch(query, s)
    /\ book' = fb_record(s.book)
    /\ IF s.book = None
       THEN Finish(Http(404, [error |-> "No match found on Google Books", query |-> query]))
       ELSE Continue("persist")

\* lines 83-86
HttpSearch ==
    /\ caller = "http" /\ pc = "search"
    /\ \E ri \in GbResponses, rt \in GbResponses : HttpSearched(search_google_books(query, ri, rt))
    /\ UNCHANGED <<caller, store, raw, query, page_cover, fetches, page_info, title_used,
                   dup_queries, dup_failed, dup_flag, add_again, cancelled, reprompts, insert>>

HttpStored(b, saved, landed) ==
    /\ store' = IF landed THEN Append(store, FirestoreDoc(b)) ELSE store
    /\ insert' = IF saved THEN "ok" ELSE "failed"
    /\ Finish(IF saved THEN Http(201, [status |-> "ok", book |-> b])
              ELSE Http(500, [error |-> "Failed to save to Firestore"]))

HttpPersisted(b, init_ok, queried, dup, failed, wresp) ==
    /\ book' = b
    /\ dup_queries' = IF queried THEN dup_queries + 1 ELSE dup_queries
    /\ dup_failed' = (queried /\ failed)
    /\ dup_flag' = dup
    /\ IF ~init_ok
       THEN Finish(Http(500, [error |-> "Failed to initialize Firebase"])) /\ UNCHANGED <<store, insert>>
       ELSE IF dup
       THEN Finish(Http(200, [status |-> "exists", book |-> b])) /\ UNCHANGED <<store, insert>>
       ELSE HttpStored(b, save_to_firebase(b, wresp), wresp.landed)

\* lines 88-115
HttpPersist ==
    /\ caller = "http" /\ pc = "persist"
    /\ \E init_ok \in BOOLEAN, dresp \in StoreResponses, wresp \in WriteResponses :
         HttpPersisted(WithDefaults(PreferPageCoverHttp(book, page_cover)), init_ok,
                       init_ok /\ book.googleId # None,
                       init_ok /\ book.googleId # None /\ check_duplicate_fb(book.googleId, store, dresp),
                       dresp.kind # "ok", wresp)
    /\ UNCHANGED <<caller, raw, query, page_cover, fetches, page_info, title_used, search,
                   lookups, add_again, cancelled, reprompts>>

Next ==
    \/ CliQuery \/ CliSearch \/ CliRetry \/ CliReconcile \/ CliPromptAgain
    \/ CliPromptAccept \/ CliSave
    \/ HttpQuery \/ HttpSearch \/ HttpPersist

Spec == Init /\ [][Next]_vars

(* ------------------------------------------------------------------ *)
(* Properties                                                         *)
(* ------------------------------------------------------------------ *)
IsCli == caller = "cli"
IsHttp == caller = "http"
Done == pc = "done"
ExternalId == IF IsCli THEN book.google_id ELSE book.googleId
\* the run is past reconciliation and holds a reconciled record
Reconciled ==
    \/ IsCli /\ (pc \in {"prompt", "save"} \/ (Done /\ insert # "none"))
    \/ IsHttp /\ Done /\ result.status \in {200, 201}
CoverOf(b) == IF IsCli THEN b.cover_url ELSE b.coverUrl
SourceOf(b) == IF IsCli THEN b.cover_source ELSE b.coverSource
PageMark == IF IsCli THEN "page image" ELSE "page"

\* C1: a reconciled record carries the scraped cover and the page mark whenever a scraped
\* cover exists, and the catalog cover and the catalog mark otherwise; this also holds of
\* a record that replaced the first one inside the confirmation loop.
C1_CoverPreference ==
    Reconciled =>
        IF page_cover # None
        THEN CoverOf(book) = page_cover /\ SourceOf(book) = PageMark
        ELSE CoverOf(book) = search.book.cover_url /\ SourceOf(book) = "Google Books"

\* the step that computes the duplicate flag
DupStep ==
    \/ IsCli /\ pc = "reconcile" /\ pc' # "reconcile"
    \/ IsHttp /\ pc = "persist" /\ pc' = "done" /\ ~(result'.status = 500 /\ insert' = "none")
HasStored(id) == \E i \in DOMAIN store : store[i]["Google Books ID"] = id

Declined == (add_again # None /\ add_again # <<<<"y">>>>) \/ cancelled

CoverIsClean(c) == c = <<>> \/ (StartsWith(c, <<"h", "t", "t", "p", "s", ":", "/", "/">>) /\ ~Contains(c, <<"z", "o", "o", "m", "=">>))

\* C4: the cover of a record produced by Catalog Lookup, and of a record handed to the
\* Persistence Adapter, is empty or an https URL without zoom parameter; the item whose
\* only image link is thumbnail "http://x/img?zoom=1" yields "https://x/img".
C4_CoverIsHttps ==
    /\ search.book # None => CoverIsClean(search.book.cover_url)
    /\ (search.book # None /\ search.book.google_id = VolThumb.id) =>
           search.book.cover_url = <<"h", "t", "t", "p", "s", ":", "/", "/", "x", "/", "i", "m", "g">>
    /\ (pc = "save" \/ insert # "none") => CoverIsClean(CoverOf(book))

IsbnShaped(q) ==
    /\ Cardinality({i \in DOMAIN q : q[i] \notin {"-", " "}}) = IsbnLen
    /\ \A i \in DOMAIN q : q[i] \in Digits \cup {"-", " "}
NonEmptyResponses(log) == {i \in DOMAIN log : log[i].items # <<>>}

\* C5: for an ISBN-shaped query the ISBN request is issued first and the free-text
\* request (at most 5 candidates) only if the ISBN request yielded no item; otherwise
\* only the free-text request is issued.  The result is the normalized first item of the
\* first non-empty response, and not-found exactly when every request issued yielded no
\* item, a failed request yielding none.
C5_SearchOrder ==
    search # NoSearch =>
        /\ IF IsbnShaped(search.query)
           THEN /\ search.log[1].kind = "isbn"
                /\ Len(search.log) = (IF search.log[1].items = <<>> THEN 2 ELSE 1)
           ELSE Len(search.log) = 1
        /\ search.log[Len(search.log)].kind = "text" => search.log[Len(search.log)].maxResults = MaxResults
        /\ Len(search.log) = 2 => search.log[2].kind = "text"
        /\ Len(search.log) = 1 /\ ~IsbnShaped(search.query) => search.log[1].kind = "text"
        /\ \A i \in DOMAIN search.log : search.log[i].failed => search.log[i].items = <<>>
        /\ search.book = None <=> NonEmptyResponses(search.log) = {}
        /\ search.book # None =>
               search.book = _parse_volume(search.log[MinOf(NonEmptyResponses(search.log))].items[1])

C5_Witness ==
    /\ IsbnShaped(search.query) /\ Len(search.log) = 2
    /\ search.log[1].failed /\ search.log[2].items # <<>> /\ search.book # None

NotFoundResult ==
    IF IsCli THEN result = Exit(1)
    ELSE result.kind = "http" /\ result.status = 404 /\ result.body.query = query

\* C6: after a first lookup that found nothing there is at most one more lookup, made
\* only with an alternate query the caller supplied; when that one finds nothing too, or
\* none is supplied, the run ends unsuccessfully (exit 1, or 404 with the query) without
\* any duplicate check or insert.
C6_NotFound ==
    (lookups # <<>> /\ ~lookups[1]) =>
        /\ Len(lookups) = 1 => pc \in {"retry", "done"}
        /\ IsHttp => Len(lookups) = 1 /\ Done
        /\ (Len(lookups) >= 2 /\ ~lookups[2]) => Len(lookups) = 2 /\ Done
        /\ (Done /\ (Len(lookups) = 1 \/ ~lookups[2])) =>
              /\ NotFoundResult
              /\ dup_queries = 0 /\ insert = "none"
              /\ store \in {Earlier(caller, n) : n \in StoredCounts}

C6_Witness == IsCli /\ lookups = <<FALSE, FALSE>> /\ Done /\ result = Exit(1)

\* C7: no failure of a single request ends the process abnormally, and a failed insert
\* ends the run unsuccessfully.
C7_NoCrash ==
    /\ result.kind = "exit" => ~result.traceback
    /\ (IsCli /\ Done /\ insert = "failed") => result.code # 0

NotHttpPrefixed(s) == Take(s, 7) # <<"h", "t", "t", "p", ":", "/", "/">> /\ Take(s, 8) # <<"h", "t", "t", "p", "s", ":", "/", "/">>

\* C8: for an input that starts with neither "http://" nor "https://" the query is the
\* input unchanged, there is no cover, and no page is fetched.
C8_PlainText ==
    (pc # "start" /\ NotHttpPrefixed(raw)) => (query = raw /\ page_cover = None /\ fetches = 0)

C8_Witness == pc = "search" /\ raw = <<"h", "t", "t", "p", ":", "x">> /\ query = raw /\ fetches = 0

\* C9: on a marketplace-listing URL both callers fetch the page, and the cover found on
\* it is the cover returned, whether or not the URL path gave the query.
C9_MarketplaceFetch ==
    (pc # "start" /\ ~NotHttpPrefixed(raw) /\ Contains(raw, AmazonHost)) =>
        (fetches >= 1 /\ page_cover = page_info.cover)

\* C10: the title "Pond by Claire-Louise Bennett | Fitzcarraldo Editions" is cleaned to
\* "Pond Claire-Louise Bennett": the hyphen in the author's name does not end the name.
C10_HyphenInAuthor ==
    title_used = PondTitle => query = <<"P", "o", "n", "d", " ", "C", "l", "a", "i", "r", "e", "-", "L", "o", "u", "i", "s", "e", " ", "B", "e", "n", "n", "e", "t", "t">>

====
